---- MODULE Spec2Model ----
(***************************************************************************)
(* Model of the Willow shape tree server (willow-server/src/lib.rs):       *)
(* the node arena (a Slab<Node>), the structural update engine             *)
(* (Tree::update_node and its helpers), the AABB computed for each         *)
(* constructed node and the traversal driver (Tree::walk).                 *)
(***************************************************************************)
EXTENDS Integers, Sequences, FiniteSets, TLC

\* ---------------------------------------------------------------- bounds
\* Largest number of slab entries (occupied or vacant) the model explores.
MaxSlots == 3
\* Largest number of update_node calls in one behaviour.
MaxCalls == 3

\* ---------------------------------------------------------------- floats
\* f32 coordinates are integers; Inf and NegInf stand for +infinity and
\* -infinity (Vec2::INFINITY, Vec2::NEG_INFINITY).
Inf == 1000
NegInf == -1000

\* The result of 0.0 * infinity.
NaN == 2000

IsInfinite(a) == a >= Inf \/ a <= NegInf

\* a + b on f32 where b is finite: an infinite a absorbs b.
FAdd(a, b) == IF IsInfinite(a) THEN a ELSE a + b

\* a * b on f32 where b is finite: an infinite a keeps or flips its sign,
\* and infinity * 0.0 is NaN.
FMul(a, b) ==
    IF ~IsInfinite(a) THEN a * b
    ELSE IF b > 0 THEN a
    ELSE IF b < 0 THEN 0 - a
    ELSE NaN

FMin(a, b) == IF a <= b THEN a ELSE b
FMax(a, b) == IF a >= b THEN a ELSE b

Vec2Min(a, b) == <<FMin(a[1], b[1]), FMin(a[2], b[2])>>
Vec2Max(a, b) == <<FMax(a[1], b[1]), FMax(a[2], b[2])>>
Vec2Add(a, b) == <<FAdd(a[1], b[1]), FAdd(a[2], b[2])>>
\* Vec2 * f32 and Vec2 + f32
Vec2Scale(a, k) == <<FMul(a[1], k), FMul(a[2], k)>>
Vec2Splat(a, k) == <<FAdd(a[1], k), FAdd(a[2], k)>>

\* ------------------------------------------------------------------ Aabb
Aabb(min, max) == [min |-> min, max |-> max]

\* Aabb::default(): both corners at the origin.
AabbDefault == Aabb(<<0, 0>>, <<0, 0>>)

\* Aabb::INVALID
INVALID == Aabb(<<Inf, Inf>>, <<NegInf, NegInf>>)

\* Faulty variant: the min corner of the second box is ignored.
union_FirstMin(a, b) == Aabb(a.min, Vec2Max(a.max, b.max))

\* Aabb::union
union(a, b) == Aabb(Vec2Min(a.min, b.min), Vec2Max(a.max, b.max))

\* ------------------------------------------------------- protocol values
Empty == [s |-> "Empty"]
Circle(r) == [s |-> "Circle", radius |-> r]
Rectangle(min, max) == [s |-> "Rectangle", min |-> min, max |-> max]
\* Shape::Text: content is the sequence of the bytes of the string.
Text(content) == [s |-> "Text", content |-> content]

Translate(off) == [o |-> "Translate", offset |-> off]
Opacity(v) == [o |-> "Opacity", opacity |-> v]
Scale(k) == [o |-> "Scale", scale |-> k]
Blur(r) == [o |-> "Blur", radius |-> r]
\* Operation::Stroke(Stroke::Solid { color })
Stroke(color) == [o |-> "Stroke", color |-> color]

\* The shapes and operations updates are drawn from.
Shapes == {Empty, Circle(1)}
Operations == {Translate(<<1, 0>>), Opacity(1)}

\* NodeKind
KindShape(shape) == [tag |-> "Shape", shape |-> shape]
KindOperation(operation, child) ==
    [tag |-> "Operation", operation |-> operation, child |-> child]
KindGroup(children) == [tag |-> "Group", children |-> children]

\* NewNode
NewShape(shape) == [tag |-> "Shape", shape |-> shape]
NewOperation(operation, child) ==
    [tag |-> "Operation", operation |-> operation, child |-> child]
NewGroup(children) == [tag |-> "Group", children |-> children]

\* ChildUpdate
KeepIndex(idx) == [tag |-> "KeepIndex", idx |-> idx]
NewNode(node) == [tag |-> "NewNode", node |-> node]

\* Option<Vec<ChildUpdate>>
None == [some |-> FALSE]
Some(v) == [some |-> TRUE, val |-> v]

\* NodeContent
ContentShape(shape) == [tag |-> "Shape", shape |-> shape]
ContentOperation(operation, child) ==
    [tag |-> "Operation", operation |-> operation, child |-> child]
ContentGroup(new_children) == [tag |-> "Group", new_children |-> new_children]

\* NodeUpdate
NodeUpdate(target, content) == [target |-> target, content |-> content]

\* NodeUpdateResult<NodeUpdateResponse>
Ok(new_nodes) == [tag |-> "Ok", new_nodes |-> new_nodes]
InvalidTarget == [tag |-> "InvalidTarget"]
InvalidKeepIndex(idx) == [tag |-> "InvalidKeepIndex", idx |-> idx]
UnownedKeepIndex(idx) == [tag |-> "UnownedKeepIndex", idx |-> idx]
DuplicateKeepIndex(idx) == [tag |-> "DuplicateKeepIndex", idx |-> idx]
\* No NodeUpdateResult: the call panicked on an unwrap or an index.
Panicked == [tag |-> "Panicked"]

\* ------------------------------------------------------------------ Node
\* Node::new
Node(kind, aabb) ==
    [kind |-> kind, owned |-> FALSE, reused |-> FALSE, aabb |-> aabb]

\* ------------------------------------------------------------------ Slab
\* A slab is its occupied entries (a function from the occupied keys to
\* their nodes) and the chain of vacant keys that starts at the slab's
\* `next` key: the most recently removed key comes first, and once the
\* chain is empty the next key is the number of entries.
Slab(nodes, vacant) == [nodes |-> nodes, vacant |-> vacant]

Allocated(t) == DOMAIN t.nodes

SlabLen(t) == Cardinality(DOMAIN t.nodes) + Len(t.vacant)

SlabNextKey(t) == IF t.vacant = <<>> THEN SlabLen(t) ELSE Head(t.vacant)

SlabInsert(t, node) ==
    LET key == SlabNextKey(t) IN
    Slab([i \in DOMAIN t.nodes \cup {key} |->
              IF i = key THEN node ELSE t.nodes[i]],
         IF t.vacant = <<>> THEN <<>> ELSE Tail(t.vacant))

SlabRemove(t, key) ==
    Slab([i \in DOMAIN t.nodes \ {key} |-> t.nodes[i]],
         <<key>> \o t.vacant)

SlabSet(t, key, node) ==
    Slab([t.nodes EXCEPT ![key] = node], t.vacant)

\* ------------------------------------------------------- create_new_node
\* The AABB Tree::create_new_node computes for a node of the given kind
\* from the boxes cached on the kind's children.
\* Faulty variant: the box of a Text is as wide as its length, not ten
\* times its length, and the min corner of a Circle is not negated.
ShapeAabb_Unscaled(shape) ==
    IF shape.s = "Empty" THEN INVALID
    ELSE IF shape.s = "Circle"
    THEN Aabb(<<shape.radius, shape.radius>>, <<shape.radius, shape.radius>>)
    ELSE IF shape.s = "Rectangle" THEN Aabb(shape.min, shape.max)
    ELSE Aabb(<<-5, -10>>, <<Len(shape.content), 5>>)

ShapeAabb(shape) ==
    IF shape.s = "Empty" THEN INVALID
    ELSE IF shape.s = "Circle"
    THEN Aabb(<<0 - shape.radius, 0 - shape.radius>>,
              <<shape.radius, shape.radius>>)
    ELSE IF shape.s = "Rectangle" THEN Aabb(shape.min, shape.max)
    ELSE Aabb(<<-5, -10>>, <<Len(shape.content) * 10, 5>>)

\* Faulty variant: Scale and Blur fall into the catch-all arm.
OperationAabb_TranslateOnly(operation, child_aabb) ==
    IF operation.o = "Translate"
    THEN Aabb(Vec2Add(child_aabb.min, operation.offset),
              Vec2Add(child_aabb.max, operation.offset))
    ELSE child_aabb

OperationAabb(operation, child_aabb) ==
    IF operation.o = "Translate"
    THEN Aabb(Vec2Add(child_aabb.min, operation.offset),
              Vec2Add(child_aabb.max, operation.offset))
    ELSE IF operation.o = "Scale"
    THEN Aabb(Vec2Scale(child_aabb.min, operation.scale),
              Vec2Scale(child_aabb.max, operation.scale))
    ELSE IF operation.o = "Blur"
    THEN Aabb(Vec2Splat(child_aabb.min, 0 - operation.radius),
              Vec2Splat(child_aabb.max, operation.radius))
    ELSE child_aabb

\* The children of a node of the given kind.
ChildrenOf(kind) ==
    IF kind.tag = "Shape" THEN <<>>
    ELSE IF kind.tag = "Operation" THEN <<kind.child>>
    ELSE kind.children

\* Some child of the list has no node in the slab: self.nodes[child] and
\* nodes.get_mut(child).unwrap() panic on it.
Misses(t, children) ==
    \E i \in DOMAIN children : children[i] \notin Allocated(t)

RECURSIVE GroupAabb(_, _, _)
GroupAabb(t, children, aabb) ==
    IF children = <<>> THEN aabb
    ELSE GroupAabb(t, Tail(children), union(aabb, t.nodes[Head(children)].aabb))

create_new_node(t, kind) ==
    LET aabb == IF kind.tag = "Shape" THEN ShapeAabb(kind.shape)
                ELSE IF kind.tag = "Operation"
                THEN OperationAabb(kind.operation, t.nodes[kind.child].aabb)
                ELSE GroupAabb(t, kind.children, INVALID)
    IN Node(kind, aabb)

\* ---------------------------------------------------------- add_new_node
\* Faulty variant: pushes the number of slab entries instead of the key
\* the slab returned, as if no vacant slot were ever recycled.
InsertNewNode_PushesLen(t, new_indices, kind) ==
    [tree |-> SlabInsert(t, create_new_node(t, kind)),
     new_indices |-> Append(new_indices, SlabLen(t)),
     index |-> SlabNextKey(t)]

\* Faulty variant: puts the index at the front of new_indices.
InsertNewNode_Prepends(t, new_indices, kind) ==
    [tree |-> SlabInsert(t, create_new_node(t, kind)),
     new_indices |-> <<SlabNextKey(t)>> \o new_indices,
     index |-> SlabNextKey(t)]

\* The tail of add_new_node: create the node, insert it into the slab and
\* push its index onto new_indices. Result: the tree, new_indices and the
\* index of the node.
InsertNewNode(t, new_indices, kind) ==
    [tree |-> SlabInsert(t, create_new_node(t, kind)),
     new_indices |-> Append(new_indices, SlabNextKey(t)),
     index |-> SlabNextKey(t)]

\* The Operation arm once the child is added: c is what add_new_node
\* returned for the child.
InsertOperation(c, operation) ==
    InsertNewNode(c.tree, c.new_indices, KindOperation(operation, c.index))

\* The Group arm once the children are added: c holds their indices.
InsertGroup(c) ==
    InsertNewNode(c.tree, c.new_indices, KindGroup(c.children))

RECURSIVE add_new_node(_, _, _)
RECURSIVE AddNewChildren(_, _, _, _)

\* One step of the map over the children of a NewNode::Group: h is what
\* add_new_node returned for the child just added.
CollectChild(h, rest, children) ==
    AddNewChildren(h.tree, h.new_indices, rest, Append(children, h.index))

\* The map over the children of a NewNode::Group, left to right.
AddNewChildren(t, new_indices, rest, children) ==
    IF rest = <<>>
    THEN [tree |-> t, new_indices |-> new_indices, children |-> children]
    ELSE CollectChild(add_new_node(t, new_indices, Head(rest)),
                      Tail(rest), children)

add_new_node(t, new_indices, node) ==
    IF node.tag = "Shape"
    THEN InsertNewNode(t, new_indices, KindShape(node.shape))
    ELSE IF node.tag = "Operation"
    THEN InsertOperation(add_new_node(t, new_indices, node.child),
                         node.operation)
    ELSE InsertGroup(AddNewChildren(t, new_indices, node.children, <<>>))

\* ---------------------------------------------------------- update_child
\* What update_child returns: ok, the tree and new_indices as the call
\* leaves them, and the child index (ok) or the error (not ok).
ChildOk(t, new_indices, index) ==
    [ok |-> TRUE, tree |-> t, new_indices |-> new_indices, index |-> index]

ChildErr(t, new_indices, err) ==
    [ok |-> FALSE, tree |-> t, new_indices |-> new_indices, err |-> err]

\* The NewNode arm: a is what add_new_node returned.
NewChild(a) == ChildOk(a.tree, a.new_indices, a.index)

SetReused(t, idx) ==
    SlabSet(t, idx, [t.nodes[idx] EXCEPT !.reused = TRUE])

\* Faulty variant: a KeepIndex is accepted a second time.
update_child_NoDuplicateCheck(t, new_indices, child) ==
    IF child.tag = "KeepIndex"
    THEN IF child.idx \notin Allocated(t)
         THEN ChildErr(t, new_indices, InvalidKeepIndex(child.idx))
         ELSE IF ~t.nodes[child.idx].owned
         THEN ChildErr(t, new_indices, UnownedKeepIndex(child.idx))
         ELSE ChildOk(SetReused(t, child.idx), new_indices, child.idx)
    ELSE NewChild(add_new_node(t, new_indices, child.node))

\* Faulty variant: a KeepIndex of a node the target does not own is
\* accepted.
update_child_NoOwnedCheck(t, new_indices, child) ==
    IF child.tag = "KeepIndex"
    THEN IF child.idx \notin Allocated(t)
         THEN ChildErr(t, new_indices, InvalidKeepIndex(child.idx))
         ELSE IF t.nodes[child.idx].reused
         THEN ChildErr(t, new_indices, DuplicateKeepIndex(child.idx))
         ELSE ChildOk(SetReused(t, child.idx), new_indices, child.idx)
    ELSE NewChild(add_new_node(t, new_indices, child.node))

\* Faulty variant: a KeepIndex of a missing node is reported as unowned.
update_child_MissingIsUnowned(t, new_indices, child) ==
    IF child.tag = "KeepIndex"
    THEN IF child.idx \notin Allocated(t)
         THEN ChildErr(t, new_indices, UnownedKeepIndex(child.idx))
         ELSE IF ~t.nodes[child.idx].owned
         THEN ChildErr(t, new_indices, UnownedKeepIndex(child.idx))
         ELSE IF t.nodes[child.idx].reused
         THEN ChildErr(t, new_indices, DuplicateKeepIndex(child.idx))
         ELSE ChildOk(SetReused(t, child.idx), new_indices, child.idx)
    ELSE NewChild(add_new_node(t, new_indices, child.node))

update_child(t, new_indices, child) ==
    IF child.tag = "KeepIndex"
    THEN IF child.idx \notin Allocated(t)
         THEN ChildErr(t, new_indices, InvalidKeepIndex(child.idx))
         ELSE IF ~t.nodes[child.idx].owned
         THEN ChildErr(t, new_indices, UnownedKeepIndex(child.idx))
         ELSE IF t.nodes[child.idx].reused
         THEN ChildErr(t, new_indices, DuplicateKeepIndex(child.idx))
         ELSE ChildOk(SetReused(t, child.idx), new_indices, child.idx)
    ELSE NewChild(add_new_node(t, new_indices, child.node))

\* ----------------------------------------------------- update_node_inner
\* What the match on update.content yields: the kind of the replacement
\* node, or the error of the first failing entry.
ContentOk(t, new_indices, kind) ==
    [ok |-> TRUE, tree |-> t, new_indices |-> new_indices, kind |-> kind]

RECURSIVE UpdateChildren(_, _, _, _)

\* Faulty variant: the child index is put at the front of children_idxs.
PushChild_Prepends(c, rest, children_idxs) ==
    IF ~c.ok THEN c
    ELSE UpdateChildren(c.tree, c.new_indices, rest,
                        <<c.index>> \o children_idxs)

\* Faulty variant: a failing entry does not leave the loop unless it is
\* the last one.
PushChild_SkipsFailed(c, rest, children_idxs) ==
    IF ~c.ok /\ rest = <<>> THEN c
    ELSE IF ~c.ok
    THEN UpdateChildren(c.tree, c.new_indices, rest, children_idxs)
    ELSE UpdateChildren(c.tree, c.new_indices, rest,
                        Append(children_idxs, c.index))

\* One step of the loop over new_children: c is what update_child
\* returned, and `?` leaves the loop when c is an error.
PushChild(c, rest, children_idxs) ==
    IF ~c.ok THEN c
    ELSE UpdateChildren(c.tree, c.new_indices, rest,
                        Append(children_idxs, c.index))

\* The loop over new_children of a Group content.
UpdateChildren(t, new_indices, rest, children_idxs) ==
    IF rest = <<>>
    THEN ContentOk(t, new_indices, KindGroup(children_idxs))
    ELSE PushChild(update_child(t, new_indices, Head(rest)),
                   Tail(rest), children_idxs)

\* The Operation arm: c is what update_child returned for the child.
OperationOf(c, operation) ==
    IF ~c.ok THEN c
    ELSE ContentOk(c.tree, c.new_indices, KindOperation(operation, c.index))

\* Faulty variant: an absent list defaults to a list of one empty shape.
unwrap_or_default_OneEmpty(opt) ==
    IF opt.some THEN opt.val ELSE <<NewNode(NewShape(Empty))>>

unwrap_or_default(opt) == IF opt.some THEN opt.val ELSE <<>>

\* The match on update.content.
MaterializeContent(t, content) ==
    IF content.tag = "Shape"
    THEN ContentOk(t, <<>>, KindShape(content.shape))
    ELSE IF content.tag = "Operation"
    THEN OperationOf(update_child(t, <<>>, content.child), content.operation)
    ELSE UpdateChildren(t, <<>>, unwrap_or_default(content.new_children), <<>>)

\* The lines after the match: the replacement node is created and written
\* over the target; m is what the match yielded.
WriteBack(m, target) ==
    IF ~m.ok THEN [tree |-> m.tree, result |-> m.err]
    ELSE IF Misses(m.tree, ChildrenOf(m.kind))
    THEN [tree |-> m.tree, result |-> Panicked]
    ELSE [tree |-> SlabSet(m.tree, target, create_new_node(m.tree, m.kind)),
          result |-> Ok(m.new_indices)]

update_node_inner(t, update) ==
    WriteBack(MaterializeContent(t, update.content), update.target)

\* ------------------------------------------------- begin_children_update
RECURSIVE SetOwned(_, _)
SetOwned(t, children) ==
    IF children = <<>> THEN t
    ELSE SetOwned(SlabSet(t, Head(children),
                          [t.nodes[Head(children)] EXCEPT !.owned = TRUE]),
                  Tail(children))

begin_children_update(t, parent) ==
    IF parent \notin Allocated(t)
    THEN [ok |-> FALSE, tree |-> t, err |-> InvalidTarget]
    ELSE IF Misses(t, ChildrenOf(t.nodes[parent].kind))
    THEN [ok |-> FALSE, tree |-> t, err |-> Panicked]
    ELSE [ok |-> TRUE,
          tree |-> SetOwned(t, ChildrenOf(t.nodes[parent].kind)),
          children |-> ChildrenOf(t.nodes[parent].kind)]

\* --------------------------------------------------- end_children_update
\* Faulty variant: a reused child keeps its reused flag.
RECURSIVE end_children_update_KeepsReused(_, _, _)
end_children_update_KeepsReused(t, children, remove_unused) ==
    IF children = <<>> THEN t
    ELSE IF t.nodes[Head(children)].reused
    THEN end_children_update_KeepsReused(
             SlabSet(t, Head(children),
                     [t.nodes[Head(children)] EXCEPT !.owned = FALSE]),
             Tail(children), remove_unused)
    ELSE IF remove_unused
    THEN end_children_update_KeepsReused(SlabRemove(t, Head(children)),
                                         Tail(children), remove_unused)
    ELSE end_children_update_KeepsReused(
             SlabSet(t, Head(children),
                     [t.nodes[Head(children)] EXCEPT !.owned = FALSE]),
             Tail(children), remove_unused)

\* Faulty variant: the `continue` is missing, so a reused child is removed
\* like an unused one.
RECURSIVE end_children_update_RemovesReused(_, _, _)
end_children_update_RemovesReused(t, children, remove_unused) ==
    IF children = <<>> THEN t
    ELSE IF remove_unused
    THEN end_children_update_RemovesReused(SlabRemove(t, Head(children)),
                                           Tail(children), remove_unused)
    ELSE end_children_update_RemovesReused(
             SlabSet(t, Head(children),
                     [t.nodes[Head(children)] EXCEPT !.owned = FALSE,
                                                     !.reused = FALSE]),
             Tail(children), remove_unused)

RECURSIVE end_children_update(_, _, _)
end_children_update(t, children, remove_unused) ==
    IF children = <<>> THEN t
    ELSE IF t.nodes[Head(children)].reused
    THEN end_children_update(
             SlabSet(t, Head(children),
                     [t.nodes[Head(children)] EXCEPT !.owned = FALSE,
                                                     !.reused = FALSE]),
             Tail(children), remove_unused)
    ELSE IF remove_unused
    THEN end_children_update(SlabRemove(t, Head(children)),
                             Tail(children), remove_unused)
    ELSE end_children_update(
             SlabSet(t, Head(children),
                     [t.nodes[Head(children)] EXCEPT !.owned = FALSE]),
             Tail(children), remove_unused)

\* The loop of end_children_update comes to a child that has no node in
\* the slab: its unwrap panics.
RECURSIVE EndMisses(_, _, _)
EndMisses(t, children, remove_unused) ==
    /\ children # <<>>
    /\ \/ Head(children) \notin Allocated(t)
       \/ EndMisses(end_children_update(t, <<Head(children)>>, remove_unused),
                    Tail(children), remove_unused)

\* ----------------------------------------------------------- update_node
\* Faulty variant: unused children are removed after a failed update too.
CleanUp_AlwaysRemoves(inner, children) ==
    [tree |-> end_children_update(inner.tree, children, TRUE),
     result |-> inner.result]

\* The last lines of update_node: inner is what update_node_inner
\* returned, children the original children of the target. Nothing runs
\* after a panic.
CleanUp(inner, children) ==
    IF inner.result = Panicked THEN inner
    ELSE IF EndMisses(inner.tree, children, inner.result.tag = "Ok")
    THEN [tree |-> inner.tree, result |-> Panicked]
    ELSE [tree |-> end_children_update(inner.tree, children,
                                       inner.result.tag = "Ok"),
          result |-> inner.result]

\* Faulty variant: the content is materialized before the target is
\* looked up.
UpdateBegun_MaterializesFirst(b, t, update) ==
    IF ~b.ok
    THEN [tree |-> MaterializeContent(t, update.content).tree, result |-> b.err]
    ELSE CleanUp(update_node_inner(b.tree, update), b.children)

\* update_node once begin_children_update has returned b: `?` returns its
\* error, with the tree t untouched.
UpdateBegun(b, t, update) ==
    IF ~b.ok THEN [tree |-> t, result |-> b.err]
    ELSE CleanUp(update_node_inner(b.tree, update), b.children)

update_node(t, update) ==
    UpdateBegun(begin_children_update(t, update.target), t, update)

\* ------------------------------------------------------------------ walk
\* f32::min and f32::max with an accumulator a that is never NaN: a NaN
\* operand is ignored.
NumMin(a, b) == IF b = NaN THEN a ELSE FMin(a, b)
NumMax(a, b) == IF b = NaN THEN a ELSE FMax(a, b)

\* Faulty variant: the comparisons are not strict.
is_intersecting_NonStrict(a, b) ==
    /\ a.min[1] <= b.max[1]
    /\ a.max[1] >= b.min[1]
    /\ a.min[2] <= b.max[2]
    /\ a.max[2] >= b.min[2]

\* Aabb::is_intersecting
is_intersecting(a, b) ==
    /\ a.min[1] < b.max[1]
    /\ a.max[1] > b.min[1]
    /\ a.min[2] < b.max[2]
    /\ a.max[2] > b.min[2]

\* Aabb::corners
corners(a) ==
    <<a.min, <<a.min[1], a.max[2]>>, <<a.max[1], a.min[2]>>, a.max>>

\* The transforms the walk builds are products of translations and
\* uniform scales (the operations drawn hold no Rotation): a Mat3 is the
\* map p -> s * p + t, kept as its scale s and its offset t.
Mat3(s, t) == [s |-> s, t |-> t]
Mat3Default == Mat3(1, <<0, 0>>)
Mat3FromTranslation(offset) == Mat3(1, offset)
Mat3FromScale(scale) == Mat3(scale, <<0, 0>>)
\* m * n: n is applied first.
Mat3Mul(m, n) ==
    Mat3(m.s * n.s, <<m.s * n.t[1] + m.t[1], m.s * n.t[2] + m.t[2]>>)

\* Mat3::transform_point2: x' = s * x + 0 * y + t.x, so an infinite y
\* makes x' NaN, and likewise for y'.
transform_point2(m, p) ==
    <<IF IsInfinite(p[2]) THEN NaN ELSE FAdd(FMul(p[1], m.s), m.t[1]),
      IF IsInfinite(p[1]) THEN NaN ELSE FAdd(FMul(p[2], m.s), m.t[2])>>

\* The loop over the corners: the box of the transformed corners.
RECURSIVE CornersAabb(_, _, _, _)
CornersAabb(m, cs, min, max) ==
    IF cs = <<>> THEN Aabb(min, max)
    ELSE CornersAabb(m, Tail(cs),
             <<NumMin(min[1], transform_point2(m, Head(cs))[1]),
               NumMin(min[2], transform_point2(m, Head(cs))[2])>>,
             <<NumMax(max[1], transform_point2(m, Head(cs))[1]),
               NumMax(max[2], transform_point2(m, Head(cs))[2])>>)

\* child_aabb of a first visit: the node's box in world space.
WorldAabb(m, aabb) ==
    CornersAabb(m, corners(aabb), <<Inf, Inf>>, <<NegInf, NegInf>>)

\* The operations that push a transform.
IsTransform(operation) == operation.o \in {"Translate", "Scale"}

\* new_transform of a Translate or a Scale.
NewTransform(operation) ==
    IF operation.o = "Translate"
    THEN Mat3FromTranslation(operation.offset)
    ELSE Mat3FromScale(operation.scale)

\* Vec::pop: nothing happens on an empty vector.
Pop(v) == IF v = <<>> THEN v ELSE SubSeq(v, 1, Len(v) - 1)

\* Faulty variant: the product is taken as new times current.
PushTransform_NewTimesCurrent(transforms, operation) ==
    Append(transforms,
           Mat3Mul(NewTransform(operation), transforms[Len(transforms)]))

\* transforms.push(current_transform * new_transform)
PushTransform(transforms, operation) ==
    Append(transforms,
           Mat3Mul(transforms[Len(transforms)], NewTransform(operation)))

\* -------------------------------------------------------- RaqoteRenderer
\* The renderer the walk drives: its three stacks, the draws made on the
\* draw target (each with the source and transform it was made with, and
\* the depth of the blur stack), the depth of the layers pushed on the
\* draw target, and whether an unwrap has panicked.
DefaultStroke == <<255, 0, 255>>

RaqoteNew ==
    [stroke_stack |-> <<DefaultStroke>>,
     transform_stack |-> <<Mat3Default>>,
     blur_stack |-> <<>>,
     drawn |-> <<>>,
     layers |-> 0,
     panicked |-> FALSE]

RaqotePanic(r) == [r EXCEPT !.panicked = TRUE]

\* The draw of a shape: on the last blur target if there is one, on the
\* draw target otherwise.
DrawOn(r, draw) ==
    IF r.blur_stack = <<>>
    THEN [r EXCEPT !.drawn = Append(@, draw)]
    ELSE [r EXCEPT !.blur_stack[Len(r.blur_stack)] = Append(@, draw)]

\* RaqoteRenderer::on_shape
on_shape(r, shape) ==
    IF r.stroke_stack = <<>> \/ r.transform_stack = <<>>
    THEN RaqotePanic(r)
    ELSE IF shape.s = "Empty" THEN r
    ELSE DrawOn(r, [shape |-> shape,
                    source |-> r.stroke_stack[Len(r.stroke_stack)],
                    transform |-> r.transform_stack[Len(r.transform_stack)]])

\* RaqoteRenderer::push_operation
push_operation(r, operation) ==
    IF r.transform_stack = <<>> THEN RaqotePanic(r)
    ELSE IF operation.o = "Stroke"
    THEN [r EXCEPT !.stroke_stack =
              Append(@, <<operation.color[1] * 255, operation.color[2] * 255,
                          operation.color[3] * 255>>)]
    ELSE IF IsTransform(operation)
    THEN [r EXCEPT !.transform_stack = PushTransform(@, operation)]
    ELSE IF operation.o = "Opacity"
    THEN [r EXCEPT !.layers = @ + 1]
    ELSE [r EXCEPT !.blur_stack = Append(@, <<>>)]

\* Faulty variant: the Scale arm of pop_operation is missing.
pop_operation_ScaleStays(r, operation) ==
    IF operation.o = "Stroke"
    THEN [r EXCEPT !.stroke_stack = Pop(@)]
    ELSE IF operation.o = "Translate"
    THEN [r EXCEPT !.transform_stack = Pop(@)]
    ELSE IF operation.o = "Scale"
    THEN r
    ELSE IF operation.o = "Opacity"
    THEN [r EXCEPT !.layers = @ - 1]
    ELSE IF r.blur_stack = <<>> THEN RaqotePanic(r)
    ELSE [r EXCEPT !.blur_stack = Pop(@),
                   !.drawn = @ \o r.blur_stack[Len(r.blur_stack)]]

\* RaqoteRenderer::pop_operation: the target a Blur pops is blended onto
\* the draw target.
pop_operation(r, operation) ==
    IF operation.o = "Stroke"
    THEN [r EXCEPT !.stroke_stack = Pop(@)]
    ELSE IF IsTransform(operation)
    THEN [r EXCEPT !.transform_stack = Pop(@)]
    ELSE IF operation.o = "Opacity"
    THEN [r EXCEPT !.layers = @ - 1]
    ELSE IF r.blur_stack = <<>> THEN RaqotePanic(r)
    ELSE [r EXCEPT !.blur_stack = Pop(@),
                   !.drawn = @ \o r.blur_stack[Len(r.blur_stack)]]

\* ------------------------------------------------- the loop of Tree::walk

\* A callback the walker receives; node is the index of the node the
\* callback is made for.
Callback(cb, index, arg) == [cb |-> cb, node |-> index, arg |-> arg]

\* Faulty variant: no node is culled.
Culled_Never(viewport, world, ascending) == FALSE

\* Faulty variant: the second visit of an operation is culled as well.
Culled_OnBothVisits(viewport, world, ascending) ==
    ~is_intersecting(viewport, world)

\* The visit is a first visit of a node whose world-space box does not
\* intersect the viewport: the loop continues with the next stack entry.
Culled(viewport, world, ascending) ==
    ascending /\ ~is_intersecting(viewport, world)

\* Faulty variant: the children are pushed in declaration order.
GroupEntries_NoRev(children) ==
    [i \in 1..Len(children) |-> <<children[i], TRUE>>]

\* Faulty variant: every child is pushed twice.
GroupEntries_Twice(children) ==
    [i \in 1..(2 * Len(children)) |->
         <<children[Len(children) - ((i - 1) % Len(children))], TRUE>>]

\* The stack entries of the children of a group, reversed: the stack pops
\* from its end.
GroupEntries(children) ==
    [i \in 1..Len(children) |->
         <<children[Len(children) + 1 - i], TRUE>>]

\* The match on node.kind: w is the state of the walk with the visited
\* entry popped.
Dispatch(w, index, kind, ascending) ==
    IF kind.tag = "Shape"
    THEN IF ascending
         THEN [w EXCEPT
                 !.events = Append(@, Callback("on_shape", index, kind.shape)),
                 !.walker = on_shape(@, kind.shape)]
         ELSE w
    ELSE IF kind.tag = "Operation"
    THEN IF ascending
         THEN [w EXCEPT
                 !.events = Append(@, Callback("push_operation", index,
                                               kind.operation)),
                 !.walker = push_operation(@, kind.operation),
                 !.stack = @ \o <<<<index, FALSE>>, <<kind.child, TRUE>>>>,
                 !.transforms =
                     IF IsTransform(kind.operation)
                     THEN PushTransform(@, kind.operation)
                     ELSE @]
         ELSE [w EXCEPT
                 !.events = Append(@, Callback("pop_operation", index,
                                               kind.operation)),
                 !.walker = pop_operation(@, kind.operation),
                 !.transforms =
                     IF IsTransform(kind.operation) THEN Pop(@) ELSE @]
    ELSE IF ascending
         THEN [w EXCEPT !.stack = @ \o GroupEntries(kind.children)]
         ELSE w

\* A first visit is noted with the world-space box computed for it and
\* the current transform.
NoteVisit(w, index, world, ascending) ==
    IF ascending
    THEN [w EXCEPT !.visits =
              Append(@, [node |-> index, world |-> world,
                         transform |-> w.transforms[Len(w.transforms)]])]
    ELSE w

\* One iteration of the loop with its world-space box computed: w is the
\* state of the walk with the visited entry popped.
VisitWorld(t, viewport, w, index, ascending, world) ==
    IF Culled(viewport, world, ascending)
    THEN NoteVisit(w, index, world, ascending)
    ELSE Dispatch(NoteVisit(w, index, world, ascending),
                  index, t.nodes[index].kind, ascending)

\* One iteration of the loop: the unwrap of nodes.get(index) panics on a
\* missing node and the unwrap of transforms.last() on an empty stack,
\* which ends the walk.
Visit(t, viewport, w, index, ascending) ==
    IF index \notin Allocated(t) \/ w.transforms = <<>>
    THEN [w EXCEPT !.panicked = TRUE]
    ELSE VisitWorld(t, viewport, w, index, ascending,
             WorldAabb(w.transforms[Len(w.transforms)], t.nodes[index].aabb))

\* stack.pop(), counted.
Popped(w) == [w EXCEPT !.stack = SubSeq(@, 1, Len(@) - 1), !.steps = @ + 1]

\* The iterations of the loop that are followed: two for every slot. A
\* walk that needs more is left where it is, its stack not empty.
MaxSteps == 2 * MaxSlots

\* while let Some((index, ascending)) = stack.pop(): the loop ends when
\* the stack is empty, and a panic of the driver or of the walker ends it.
RECURSIVE WalkLoop(_, _, _)
WalkLoop(t, viewport, w) ==
    IF \/ w.stack = <<>>
       \/ w.panicked
       \/ w.walker.panicked
       \/ w.steps >= MaxSteps
    THEN w
    ELSE WalkLoop(t, viewport,
             Visit(t, viewport, Popped(w),
                   w.stack[Len(w.stack)][1], w.stack[Len(w.stack)][2]))

\* Tree::walk with a RaqoteRenderer as the walker: the callbacks the
\* walker receives and the state they leave it in, with the first visits
\* made and the transform stack left at the end.
walk(t, viewport) ==
    WalkLoop(t, viewport,
             [tag |-> "Walked",
              viewport |-> viewport,
              stack |-> <<<<0, TRUE>>>>,
              transforms |-> <<Mat3Default>>,
              events |-> <<>>,
              walker |-> RaqoteNew,
              visits |-> <<>>,
              steps |-> 0,
              panicked |-> FALSE])

\* ------------------------------------------------------------- Tree::new
\* Faulty variant: the initial node is inserted with its owned flag set.
TreeNew_OwnedRoot ==
    Slab(0 :> [Node(KindShape(Empty), AabbDefault) EXCEPT !.owned = TRUE],
         <<>>)

TreeNew == Slab(0 :> Node(KindShape(Empty), AabbDefault), <<>>)

\* ---------------------------------------------------------------- inputs
\* Node indices a client may name: the indices of the explored slab.
Indices == 0..(MaxSlots - 1)

\* The NewNode values updates are drawn from: a leaf, an opacity layer on
\* a leaf, an empty group, a group of two leaves.
NewLeaves == {NewShape(Circle(1))}

NewNodes ==
    NewLeaves
    \cup {NewOperation(Opacity(1), l) : l \in NewLeaves}
    \cup {NewGroup(<<>>)}
    \cup {NewGroup(<<a, b>>) : a \in NewLeaves, b \in NewLeaves}

\* The ChildUpdate values: any KeepIndex, any NewNode above.
ChildUpdates ==
    {KeepIndex(i) : i \in Indices} \cup {NewNode(n) : n \in NewNodes}

\* The ChildUpdate values that stand in a list of two.
LeafUpdates ==
    {KeepIndex(i) : i \in Indices} \cup {NewNode(n) : n \in NewLeaves}

\* The new_children lists: empty, one entry, two entries, three copies of
\* a new leaf, a KeepIndex followed by another KeepIndex twice, and a new
\* leaf followed by a KeepIndex of the root and a KeepIndex of another node.
ChildUpdateLists ==
    {<<>>}
    \cup {<<a>> : a \in ChildUpdates}
    \cup {<<a, b>> : a \in LeafUpdates, b \in LeafUpdates}
    \cup {<<NewNode(l), NewNode(l), NewNode(l)>> : l \in NewLeaves}
    \cup {l \in {<<KeepIndex(i), KeepIndex(j), KeepIndex(j)>> :
                       i \in Indices, j \in Indices} : l[1] # l[2]}
    \cup {<<NewNode(n), KeepIndex(0), KeepIndex(j)>> :
              n \in NewLeaves, j \in Indices \ {0}}

\* The operation children: a KeepIndex, a new leaf, a new opacity layer.
OperationChildren ==
    LeafUpdates
    \cup {NewNode(NewOperation(Opacity(1), l)) : l \in NewLeaves}

\* The viewports walks are made with: one ends where the unit circle at
\* the origin ends, the other begins there.
Viewports == {Aabb(<<-5, -5>>, <<1, 5>>), Aabb(<<1, -5>>, <<5, 5>>)}

\* The operations that are drawn over a new leaf only.
LeafOperations == {Scale(2), Blur(1), Stroke(<<1, 0, 0>>)}

Contents ==
    {ContentShape(s) : s \in Shapes}
    \cup {ContentOperation(Translate(<<1, 0>>), c) : c \in OperationChildren}
    \cup {ContentOperation(o, NewNode(l)) :
              o \in LeafOperations, l \in NewLeaves}
    \cup {ContentGroup(None)}
    \cup {ContentGroup(Some(l)) : l \in ChildUpdateLists}

\* ----------------------------------------------------------------- state
VARIABLES
    tree,     \* the Tree: its slab of nodes
    before,   \* the tree as it was when the last update_node call began
    update,   \* the NodeUpdate of the last update_node call
    result,   \* what the last update_node call returned
    calls,    \* the number of update_node calls made so far
    walked,   \* what the last Tree::walk of the current tree produced
    boxes     \* the values drawn for an operation that is explored on its
              \* own, and what it returned

vars == <<tree, before, update, result, calls, walked, boxes>>

NoCall == [tag |-> "NoCall"]

NoWalk == [tag |-> "NoWalk"]

NoBoxes == [tag |-> "NoBoxes"]

\* The state after Tree::new.
NewTree ==
    /\ tree = TreeNew
    /\ before = TreeNew
    /\ update = NodeUpdate(0, NoCall)
    /\ result = NoCall
    /\ calls = 0
    /\ walked = NoWalk

Init == NewTree /\ boxes = NoBoxes

\* The effect of a call that returned r on the state.
Returned(r, u) ==
    /\ SlabLen(r.tree) <= MaxSlots
    /\ tree' = r.tree
    /\ before' = tree
    /\ update' = u
    /\ result' = r.result
    /\ calls' = calls + 1
    /\ walked' = NoWalk
    /\ UNCHANGED boxes

\* One call of Tree::update_node, made once the caller is done with the
\* response to the call before it.
UpdateNode(u) ==
    /\ result = NoCall
    /\ calls < MaxCalls
    /\ Returned(update_node(tree, u), u)

\* The caller consumes the NodeUpdateResult of its call; the tree is then
\* ready for the next update.
TakeResponse ==
    /\ result # NoCall
    /\ before' = tree
    /\ update' = NodeUpdate(0, NoCall)
    /\ result' = NoCall
    /\ UNCHANGED <<tree, calls, walked, boxes>>

\* One call of Tree::walk on the tree as the last update left it.
Walk(viewport) ==
    /\ result = NoCall
    /\ walked' = walk(tree, viewport)
    /\ UNCHANGED <<tree, before, update, result, calls, boxes>>

Next ==
    \/ \E target \in Indices, content \in Contents :
           UpdateNode(NodeUpdate(target, content))
    \/ TakeResponse
    \/ \E viewport \in Viewports : Walk(viewport)

Spec == Init /\ [][Next]_vars

\* ------------------------------------------- successful updates only
\* One call of Tree::update_node that returns Ok: the client sends no
\* update the tree refuses.
UpdateNodeOk(u) ==
    /\ UpdateNode(u)
    /\ result'.tag = "Ok"

NextOk ==
    \/ \E target \in Indices, content \in Contents :
           UpdateNodeOk(NodeUpdate(target, content))
    \/ TakeResponse
    \/ \E viewport \in Viewports : Walk(viewport)

SpecOk == Init /\ [][NextOk]_vars

\* ---------------------------------------------------- Aabb::union alone
\* The coordinates boxes are drawn from.
MaxCoord == 2

Coords == 0..MaxCoord

\* Every pair of corners over the coordinates, min <= max or not, and
\* INVALID.
Boxes ==
    {Aabb(<<x1, y1>>, <<x2, y2>>) : x1 \in Coords, y1 \in Coords,
                                    x2 \in Coords, y2 \in Coords}
    \cup {INVALID}

InitAabb ==
    /\ NewTree
    /\ \E a \in Boxes, b \in Boxes : boxes = [tag |-> "Drawn", a |-> a, b |-> b]

\* Aabb::union applied to the boxes drawn, both ways, and to each box and
\* INVALID.
ApplyUnion ==
    /\ boxes.tag = "Drawn"
    /\ boxes' = [tag |-> "Applied", a |-> boxes.a, b |-> boxes.b,
                 ab |-> union(boxes.a, boxes.b),
                 ba |-> union(boxes.b, boxes.a),
                 ia |-> union(INVALID, boxes.a),
                 ai |-> union(boxes.a, INVALID)]
    /\ UNCHANGED <<tree, before, update, result, calls, walked>>

\* Aabb::is_intersecting applied to the boxes drawn, both ways, and to
\* each box and INVALID.
ApplyIsIntersecting ==
    /\ boxes.tag = "Drawn"
    /\ boxes' = [tag |-> "Intersected", a |-> boxes.a, b |-> boxes.b,
                 ab |-> is_intersecting(boxes.a, boxes.b),
                 ba |-> is_intersecting(boxes.b, boxes.a),
                 ia |-> is_intersecting(INVALID, boxes.a),
                 ai |-> is_intersecting(boxes.a, INVALID)]
    /\ UNCHANGED <<tree, before, update, result, calls, walked>>

NextAabb == ApplyUnion \/ ApplyIsIntersecting

SpecAabb == InitAabb /\ [][NextAabb]_vars

\* ------------------------------------------- the box of every leaf shape
\* The longest Text content drawn.
MaxLen == 2

\* The shapes a leaf is drawn from: every variant of Shape.
LeafShapes ==
    {Empty}
    \cup {Circle(r) : r \in Coords}
    \cup {Rectangle(<<x1, y1>>, <<x2, y2>>) : x1 \in Coords, y1 \in Coords,
                                             x2 \in Coords, y2 \in Coords}
    \cup {Text([i \in 1..n |-> "a"]) : n \in 0..MaxLen}

\* The contents that construct a leaf of the shape: the root itself, the
\* child of a new operation at the root, the only child of the root group.
ShapeContents(shape) ==
    {ContentShape(shape),
     ContentOperation(Opacity(1), NewNode(NewShape(shape))),
     ContentGroup(Some(<<NewNode(NewShape(shape))>>))}

InitShape ==
    /\ NewTree
    /\ \E shape \in LeafShapes : boxes = [tag |-> "Shape", shape |-> shape]

\* The first update of the root of a fresh tree, with the shape drawn.
UpdateShape ==
    /\ boxes.tag = "Shape"
    /\ calls = 0
    /\ \E content \in ShapeContents(boxes.shape) :
           UpdateNode(NodeUpdate(0, content))

NextShape == UpdateShape \/ TakeResponse

SpecShape == InitShape /\ [][NextShape]_vars

\* ------------------------------------------------- vocabulary of claims
Range(s) == {s[i] : i \in DOMAIN s}

NoDuplicates(s) == \A i, j \in DOMAIN s : s[i] = s[j] => i = j

\* The allocated direct children of node i of tree t.
Children(t, i) == ChildrenOf(t.nodes[i].kind)

\* The allocated nodes reachable from the nodes of `frontier`, these
\* included.
RECURSIVE ReachFrom(_, _, _)
ReachFrom(t, frontier, seen) ==
    LET fresh == (frontier \cap Allocated(t)) \ seen IN
    IF fresh = {} THEN seen
    ELSE ReachFrom(t, UNION {Range(Children(t, i)) : i \in fresh},
                   seen \cup fresh)

Subtree(t, i) == ReachFrom(t, {i}, {})

Reachable(t) == Subtree(t, 0)

\* The ChildUpdate entries of a content, left to right.
Entries(content) ==
    IF content.tag = "Operation" THEN <<content.child>>
    ELSE IF content.tag = "Group" THEN unwrap_or_default(content.new_children)
    ELSE <<>>

\* The indices named by the KeepIndex entries of a content.
Kept(content) ==
    {e.idx : e \in {x \in Range(Entries(content)) : x.tag = "KeepIndex"}}

\* The number of nodes a NewNode describes.
RECURSIVE NewNodeCount(_)
RECURSIVE NewNodeListCount(_)
NewNodeCount(node) ==
    IF node.tag = "Shape" THEN 1
    ELSE IF node.tag = "Operation" THEN 1 + NewNodeCount(node.child)
    ELSE 1 + NewNodeListCount(node.children)

NewNodeListCount(l) ==
    IF l = <<>> THEN 0 ELSE NewNodeCount(Head(l)) + NewNodeListCount(Tail(l))

RECURSIVE EntriesNewCount(_)
EntriesNewCount(l) ==
    IF l = <<>> THEN 0
    ELSE (IF Head(l).tag = "NewNode" THEN NewNodeCount(Head(l).node) ELSE 0)
         + EntriesNewCount(Tail(l))

Called == result.tag # "NoCall"
Succeeded == result.tag = "Ok"
KeepIndexFailed ==
    result.tag \in {"InvalidKeepIndex", "UnownedKeepIndex", "DuplicateKeepIndex"}

\* The direct children the target had when the last call began.
FormerChildren == Range(Children(before, update.target))

\* Position of id in the new_nodes of the last response.
Pos(id) == CHOOSE p \in DOMAIN result.new_nodes : result.new_nodes[p] = id

\* C1: an update_node call that returns InvalidKeepIndex, UnownedKeepIndex
\* or DuplicateKeepIndex leaves the arena as it was: the same allocated
\* ids, each with the same kind and AABB (no node materialized before the
\* failing KeepIndex stays allocated).
C1_KeepIndexErrorRestoresArena ==
    KeepIndexFailed =>
        /\ Allocated(tree) = Allocated(before)
        /\ \A i \in Allocated(before) \cap Allocated(tree) :
               /\ tree.nodes[i].kind = before.nodes[i].kind
               /\ tree.nodes[i].aabb = before.nodes[i].aabb

\* C2: after a successful update_node(t), every former direct child of t
\* that no KeepIndex named is absent from the arena, together with its
\* whole subtree, so no allocated node is left unreachable from id 0.
C2_OrphanSubtreesFreed ==
    Succeeded =>
        \A c \in FormerChildren \ Kept(update.content) :
            \A d \in Subtree(before, c) : d \notin Allocated(tree)

\* C3: in every reachable state, every id that is the child of an
\* Operation node or in the children list of a Group node of an allocated
\* node refers to an allocated node.
C3_ReferentialIntegrity ==
    \A i \in Allocated(tree) :
        \A c \in Range(Children(tree, i)) : c \in Allocated(tree)

\* A failed update of a target that keeps its children, in an arena where
\* an earlier update has freed a slot.
C3_Witness ==
    /\ KeepIndexFailed
    /\ FormerChildren # {}
    /\ FormerChildren \subseteq Allocated(tree)
    /\ tree.vacant # <<>>

\* C4: in every reachable state the graph reachable from id 0 is a tree:
\* no node reachable from id 0 appears twice in one children list or is
\* the child of two different nodes, and there is no cycle.
C4_TreeShape ==
    LET R == Reachable(tree) IN
    /\ \A i \in R : NoDuplicates(Children(tree, i))
    /\ \A i, j \in R :
           i # j => Range(Children(tree, i)) \cap Range(Children(tree, j)) = {}
    /\ \A i \in R :
           i \notin ReachFrom(tree, Range(Children(tree, i)), {})

\* A successful update that kept one child of the root next to another
\* entry, the root being a group of at least two children afterwards.
C4_Witness ==
    /\ Succeeded
    /\ update.target = 0
    /\ Kept(update.content) # {}
    /\ Len(Children(tree, 0)) >= 2

\* C5: after any sequence of update_node calls id 0 is still allocated.
C5_RootAllocated == 0 \in Allocated(tree)

\* A successful update of the root that freed former children of the root.
C5_Witness ==
    /\ Succeeded
    /\ update.target = 0
    /\ FormerChildren \ Allocated(tree) # {}
    /\ 0 \in Allocated(tree)

\* C6: after every update_node call has returned, with success or with
\* any error, every allocated node has owned = false and reused = false.
C6_FlagsCleared ==
    \A i \in Allocated(tree) :
        ~tree.nodes[i].owned /\ ~tree.nodes[i].reused

\* A call that failed after it had marked a child owned and reused.
C6_Witness ==
    /\ result.tag = "DuplicateKeepIndex"
    /\ result.idx \in FormerChildren
    /\ result.idx \in Allocated(tree)

\* C7: update_node with a target that is not allocated returns
\* InvalidTarget whatever the content, and leaves every node of the arena
\* (ids, kinds, AABBs, flags) as it was.
C7_InvalidTargetLeavesArena ==
    (Called /\ update.target \notin Allocated(before)) =>
        /\ result = InvalidTarget
        /\ tree = before

\* A call on a freed slot with a content that describes new nodes.
C7_Witness ==
    /\ result = InvalidTarget
    /\ update.target \in Range(before.vacant)
    /\ EntriesNewCount(Entries(update.content)) > 0

\* C8: a KeepIndex(k) of a successful update_node(t), k a direct child of
\* t before the call, leaves node k allocated under the same id with the
\* kind and AABB it had, leaves its subtree untouched, and k is a direct
\* child of t after the call.
C8_KeepIndexPreserves ==
    Succeeded =>
        \A k \in Kept(update.content) \cap FormerChildren :
            /\ k \in Allocated(tree)
            /\ k \in Range(Children(tree, update.target))
            /\ \A d \in Subtree(before, k) :
                   /\ d \in Allocated(tree)
                   /\ tree.nodes[d].kind = before.nodes[d].kind
                   /\ tree.nodes[d].aabb = before.nodes[d].aabb

\* A successful update that kept a child which has a child of its own.
C8_Witness ==
    /\ Succeeded
    /\ \E k \in Kept(update.content) \cap FormerChildren :
           /\ Children(before, k) # <<>>
           /\ k \in Range(Children(tree, update.target))

\* C9: the new_nodes of a successful update_node has no duplicate, is the
\* set of ids allocated after the call and not before it, holds one id per
\* node the NewNode entries describe, and none of its ids was allocated
\* when the call began.
C9_NewNodesAreTheFreshIds ==
    Succeeded =>
        /\ NoDuplicates(result.new_nodes)
        /\ Range(result.new_nodes) = Allocated(tree) \ Allocated(before)
        /\ Len(result.new_nodes) = EntriesNewCount(Entries(update.content))
        /\ Range(result.new_nodes) \cap Allocated(before) = {}

\* A successful update that allocated a node and freed a former child, in
\* an arena that had a vacant slot to recycle.
C9_Witness ==
    /\ Succeeded
    /\ result.new_nodes # <<>>
    /\ FormerChildren \ Allocated(tree) # {}
    /\ before.vacant # <<>>

\* The new_nodes ids in the subtree of node i after the last call.
NewIn(i) == Subtree(tree, i) \cap Range(result.new_nodes)

\* The subtrees of the entries of a children list come one after the
\* other in new_nodes, in the order of the list.
InListOrder(children) ==
    \A i, j \in DOMAIN children :
        i < j => \A a \in NewIn(children[i]), b \in NewIn(children[j]) :
                     Pos(a) < Pos(b)

\* The content is a group of n >= 1 new leaves.
IsGroupOfNewLeaves(content) ==
    /\ content.tag = "Group"
    /\ Entries(content) # <<>>
    /\ \A e \in Range(Entries(content)) :
           e.tag = "NewNode" /\ e.node.tag = "Shape"

\* C10: in the new_nodes of a successful update the ids of the new
\* children of a NewNode come before the id of that NewNode, and the
\* subtrees of sibling entries come in the left-to-right order of
\* new_children; a group of n new leaves on a fresh tree returns [1..n].
C10_ChildrenFirstLeftToRight ==
    Succeeded =>
        /\ \A p \in Range(result.new_nodes) :
               /\ \A c \in Range(Children(tree, p)) :
                      c \in Range(result.new_nodes) /\ Pos(c) < Pos(p)
               /\ InListOrder(Children(tree, p))
        /\ InListOrder(Children(tree, update.target))
        /\ (before = TreeNew /\ IsGroupOfNewLeaves(update.content)) =>
               result.new_nodes = [i \in 1..Len(Entries(update.content)) |-> i]

\* A successful update that materialized a NewNode with a child of its own
\* in an arena with a vacant slot.
C10_Witness ==
    /\ Succeeded
    /\ before.vacant # <<>>
    /\ \E p \in Range(result.new_nodes) : Children(tree, p) # <<>>

\* The child id the j-th entry of the last update stands for: the index a
\* KeepIndex names, or the id of the root of a NewNode, which is the last
\* id the entry added to new_nodes.
ExpectedChild(j) ==
    LET E == Entries(update.content) IN
    IF E[j].tag = "KeepIndex" THEN E[j].idx
    ELSE result.new_nodes[EntriesNewCount(SubSeq(E, 1, j))]

\* The j-th entry, when it is a NewNode, has a root of the kind it names.
RootMatches(j) ==
    LET E == Entries(update.content) IN
    E[j].tag = "NewNode" =>
        /\ ExpectedChild(j) \in Allocated(tree)
        /\ tree.nodes[ExpectedChild(j)].kind.tag = E[j].node.tag

\* C11: after a successful update_node(t, content) node t is allocated
\* under the same id and its kind is the materialized content: Shape(s),
\* Operation with the given operation and the kept or new child id, or
\* Group whose children are, in the order of new_children, the kept id of
\* each KeepIndex and the root id of each NewNode.
C11_TargetHoldsContent ==
    Succeeded =>
        LET t == update.target
            content == update.content
            E == Entries(update.content)
        IN /\ t \in Allocated(tree)
           /\ t \in Allocated(before)
           /\ \A j \in DOMAIN E : RootMatches(j)
           /\ content.tag = "Shape" =>
                  tree.nodes[t].kind = KindShape(content.shape)
           /\ content.tag = "Operation" =>
                  tree.nodes[t].kind =
                      KindOperation(content.operation, ExpectedChild(1))
           /\ content.tag = "Group" =>
                  tree.nodes[t].kind =
                      KindGroup([j \in 1..Len(E) |-> ExpectedChild(j)])

\* A successful group update that lists a kept child after a new node.
C11_Witness ==
    /\ Succeeded
    /\ update.content.tag = "Group"
    /\ Len(Entries(update.content)) >= 2
    /\ Entries(update.content)[1].tag = "NewNode"
    /\ Entries(update.content)[2].tag = "KeepIndex"
    /\ Len(Children(tree, update.target)) = 2

\* The key the n-th insert into slab t returns, no remove in between: the
\* vacant keys, most recently freed first, then the keys past the end.
FreshKey(t, n) ==
    IF n <= Len(t.vacant) THEN t.vacant[n]
    ELSE SlabLen(t) + (n - Len(t.vacant) - 1)

\* The ids allocated when the j-th entry of the last update is resolved:
\* those allocated when the call began and those the NewNode entries to
\* its left have allocated.
AllocatedAt(j) ==
    Allocated(before)
    \cup {FreshKey(before, n) :
              n \in 1..EntriesNewCount(SubSeq(Entries(update.content), 1, j - 1))}

\* The j-th entry is a KeepIndex that update_child must refuse.
KeepFails(j) ==
    LET E == Entries(update.content) IN
    /\ E[j].tag = "KeepIndex"
    /\ \/ E[j].idx \notin AllocatedAt(j)
       \/ E[j].idx \notin FormerChildren
       \/ \E i \in 1..(j - 1) : E[i] = E[j]

\* The j-th entry is the leftmost entry that fails.
FirstFailure(j) ==
    /\ KeepFails(j)
    /\ \A i \in 1..(j - 1) : ~KeepFails(i)

\* The last call was made on an allocated target.
CalledOnTarget == Called /\ update.target \in Allocated(before)

\* C12: a KeepIndex(id) whose id is allocated but is not a direct child of
\* the target when the call begins makes update_node return
\* UnownedKeepIndex(id), when no entry to its left has failed.
C12_UnownedKeepIndex ==
    CalledOnTarget =>
        \A j \in DOMAIN Entries(update.content) :
            LET id == Entries(update.content)[j].idx IN
            (/\ FirstFailure(j)
             /\ id \in AllocatedAt(j)
             /\ id \notin FormerChildren)
            => result = UnownedKeepIndex(id)

\* A refused KeepIndex of a node that is a grandchild of the target.
C12_Witness ==
    /\ CalledOnTarget
    /\ result.tag = "UnownedKeepIndex"
    /\ result.idx # update.target
    /\ \E c \in FormerChildren : result.idx \in Range(Children(before, c))

\* The second of two KeepIndex(k) entries at positions i < j, k a direct
\* child of the target.
NamedTwice(i, j) ==
    LET E == Entries(update.content) IN
    /\ i < j
    /\ E[i].tag = "KeepIndex"
    /\ E[i] = E[j]
    /\ E[i].idx \in FormerChildren

\* What C13 states of a node k named twice.
DuplicateReported(k) ==
    /\ result = DuplicateKeepIndex(k)
    /\ k \in Allocated(tree)
    /\ tree.nodes[update.target] = before.nodes[update.target]
    /\ k \in Range(Children(tree, update.target))
    /\ ~tree.nodes[k].reused

\* C13 as stated: when the same id k, a direct child of the target, is
\* named by two KeepIndex entries of one update, update_node returns
\* DuplicateKeepIndex(k); afterwards k is allocated, a child of the
\* unchanged target, and has reused = false.
C13_DuplicateKeepIndex ==
    CalledOnTarget =>
        \A i, j \in DOMAIN Entries(update.content) :
            NamedTwice(i, j) =>
                DuplicateReported(Entries(update.content)[j].idx)

\* C13 amended: the same, when no entry to the left of the second
\* KeepIndex(k) has failed.
C13_DuplicateKeepIndexFirstFailure ==
    CalledOnTarget =>
        \A i, j \in DOMAIN Entries(update.content) :
            (NamedTwice(i, j) /\ FirstFailure(j)) =>
                DuplicateReported(Entries(update.content)[j].idx)

\* A child named twice after another kept child, refused as a duplicate.
C13_Witness ==
    /\ CalledOnTarget
    /\ result.tag = "DuplicateKeepIndex"
    /\ Len(Entries(update.content)) = 3
    /\ Entries(update.content)[1] # Entries(update.content)[2]
    /\ NamedTwice(2, 3)

\* C14: a KeepIndex(id) whose id is not allocated makes update_node return
\* InvalidKeepIndex(id), when no entry to its left has failed; the former
\* children of the target stay allocated.
C14_InvalidKeepIndex ==
    CalledOnTarget =>
        \A j \in DOMAIN Entries(update.content) :
            LET id == Entries(update.content)[j].idx IN
            (FirstFailure(j) /\ id \notin AllocatedAt(j))
            => /\ result = InvalidKeepIndex(id)
               /\ FormerChildren \subseteq Allocated(tree)

\* A refused KeepIndex of a freed slot, on a target that has children.
C14_Witness ==
    /\ CalledOnTarget
    /\ result.tag = "InvalidKeepIndex"
    /\ result.idx \in Range(before.vacant)
    /\ FormerChildren # {}
    /\ FormerChildren \subseteq Allocated(tree)

Reverse(s) == [i \in 1..Len(s) |-> s[Len(s) + 1 - i]]

\* Tree t once node target is an empty group and its former direct
\* children are freed, the last of them freed last.
EmptiedGroup(t, target) ==
    Slab([i \in Allocated(t) \ Range(Children(t, target)) |->
              IF i = target THEN Node(KindGroup(<<>>), INVALID)
              ELSE t.nodes[i]],
         Reverse(Children(t, target)) \o t.vacant)

\* C15: a Group content with new_children absent behaves exactly as one
\* with an empty list: on any tree and target both give the same response
\* (empty new_nodes) and the same arena, an empty group at the target with
\* every former direct child of the target freed.
C15_AbsentIsEmptyList ==
    (Called /\ update.content \in {ContentGroup(None), ContentGroup(Some(<<>>))})
    => IF update.target \in Allocated(before)
       THEN result = Ok(<<>>) /\ tree = EmptiedGroup(before, update.target)
       ELSE result = InvalidTarget /\ tree = before

\* An update with new_children absent on a target that had children.
C15_Witness ==
    /\ Succeeded
    /\ update.content = ContentGroup(None)
    /\ Len(Children(before, update.target)) >= 2
    /\ tree.nodes[update.target].kind = KindGroup(<<>>)

\* Some update of the root has succeeded: the root is no longer the node
\* Tree::new made.
RootUpdated == tree.nodes[0] # TreeNew.nodes[0]

\* The AABB cached on node i is the one create_new_node computes for its
\* kind from the AABBs cached on its children.
AabbValid(i) ==
    tree.nodes[i].aabb = create_new_node(tree, tree.nodes[i].kind).aabb

\* C16: after any sequence of successful update_node calls, updates of
\* targets other than the root included, every node reachable from id 0
\* has a cached AABB equal to the AABB function of its kind applied to the
\* AABBs cached on its direct children.
C16_NoStaleAabb ==
    RootUpdated => \A i \in Reachable(tree) : AabbValid(i)

Walked == walked.tag = "Walked"

\* The positions of the callbacks of the last walk made for the nodes of
\* the subtree of node i.
CallbacksIn(i) ==
    {p \in DOMAIN walked.events : walked.events[p].node \in Subtree(tree, i)}

\* C17: for any tree and viewport, if the world-space AABB computed for a
\* node at its first visit does not intersect the viewport, the walker
\* receives no on_shape, push_operation or pop_operation callback for that
\* node or for any of its descendants during that walk.
C17_CulledSubtreeSilent ==
    Walked =>
        \A v \in Range(walked.visits) :
            ~is_intersecting(walked.viewport, v.world)
            => CallbacksIn(v.node) = {}

\* A walk that culled one node and made callbacks for others.
C17_Witness ==
    /\ Walked
    /\ walked.events # <<>>
    /\ \E v \in Range(walked.visits) :
           /\ ~is_intersecting(walked.viewport, v.world)
           /\ tree.nodes[v.node].kind # KindShape(Empty)

\* The push_operation and pop_operation callbacks of events, read left to
\* right with the operations pushed and not yet popped in open, are
\* properly nested with matching operation values and leave nothing open.
RECURSIVE Balanced(_, _)
Balanced(events, open) ==
    IF events = <<>> THEN open = <<>>
    ELSE IF Head(events).cb = "push_operation"
    THEN Balanced(Tail(events), Append(open, Head(events).arg))
    ELSE IF Head(events).cb = "pop_operation"
    THEN /\ open # <<>>
         /\ open[Len(open)] = Head(events).arg
         /\ Balanced(Tail(events), SubSeq(open, 1, Len(open) - 1))
    ELSE Balanced(Tail(events), open)

\* C18: for any tree reachable by update_node calls and any viewport, the
\* push_operation and pop_operation calls of a walk are a balanced
\* parenthesization: every push is matched by exactly one later pop with
\* the same operation value, properly nested, also when the operation's
\* child is culled, and no pop comes without its push.
C18_PushPopBalanced ==
    Walked => /\ ~walked.panicked
              /\ Balanced(walked.events, <<>>)

\* A walk through two nested operations of different values.
C18_Witness ==
    /\ Walked
    /\ Len(walked.events) >= 4
    /\ walked.events[1].cb = "push_operation"
    /\ walked.events[2].cb = "push_operation"
    /\ walked.events[1].arg # walked.events[2].arg

\* C19: for a group with children [c0, ..., cn] visited by walk, all the
\* callbacks made for the subtree of ci come before all the callbacks made
\* for the subtree of cj whenever i < j.
C19_GroupVisitOrder ==
    Walked =>
        \A g \in Reachable(tree) :
            tree.nodes[g].kind.tag = "Group" =>
                \A i, j \in DOMAIN Children(tree, g) :
                    i < j =>
                        \A p \in CallbacksIn(Children(tree, g)[i]),
                           q \in CallbacksIn(Children(tree, g)[j]) : p < q

\* A walk of a group with callbacks for two of its children.
C19_Witness ==
    /\ Walked
    /\ \E g \in Reachable(tree) :
           /\ tree.nodes[g].kind.tag = "Group"
           /\ Len(Children(tree, g)) >= 2
           /\ CallbacksIn(Children(tree, g)[1]) # {}
           /\ CallbacksIn(Children(tree, g)[2]) # {}

\* C20: a freshly created tree (Tree::new) contains exactly one node, at
\* id 0, of kind Shape(Empty), with owned = false and reused = false.
C20_FreshTree ==
    calls = 0 =>
        /\ Allocated(tree) = {0}
        /\ tree.vacant = <<>>
        /\ tree.nodes[0].kind = KindShape(Empty)
        /\ ~tree.nodes[0].owned
        /\ ~tree.nodes[0].reused

\* The fresh tree, walked before any update.
C20_Witness ==
    /\ calls = 0
    /\ Walked
    /\ SlabLen(tree) = 1

\* C21: the root node of a freshly created tree has AABB = INVALID, the
\* AABB update_node gives to a node of kind Shape(Empty).
C21_FreshRootAabbInvalid ==
    calls = 0 =>
        /\ tree.nodes[0].aabb = INVALID
        /\ tree.nodes[0].aabb = create_new_node(tree, KindShape(Empty)).aabb

\* The new_nodes ids strictly below node p after the last call.
NewBelow(p) == NewIn(p) \ {p}

\* C23 as stated: new_nodes is in pre-order, the id of a newly
\* materialized node comes before the ids of the newly materialized nodes
\* below it.
C23_NewNodesPreOrder ==
    Succeeded =>
        \A p \in Range(result.new_nodes) :
            \A d \in NewBelow(p) : Pos(p) < Pos(d)

\* C23, amended: the id of a newly materialized node comes after the ids
\* of all the newly materialized nodes below it.
C23_NewNodesPostOrder ==
    Succeeded =>
        \A p \in Range(result.new_nodes) :
            \A d \in NewBelow(p) : Pos(d) < Pos(p)

\* A successful update, in an arena without a vacant slot, that
\* materialized a node with a new node below it.
C23_Witness ==
    /\ Succeeded
    /\ before.vacant = <<>>
    /\ \E p \in Range(result.new_nodes) : NewBelow(p) # {}

\* The footprint of the last call: its target and the subtrees of the
\* former direct children of the target it did not keep.
Footprint ==
    {update.target}
        \cup UNION {Subtree(before, c) :
                       c \in FormerChildren \ Kept(update.content)}

\* C24: a successful update_node changes nothing outside its footprint:
\* every node allocated before the call that is neither the target nor
\* inside the subtree of a non-reused former direct child of the target is
\* still allocated under the same id, with the same kind, AABB and flags.
C24_FrameOfSuccessfulUpdate ==
    Succeeded =>
        \A i \in Allocated(before) \ Footprint :
            /\ i \in Allocated(tree)
            /\ tree.nodes[i] = before.nodes[i]

\* A successful update that kept one child of its target and dropped
\* another.
C24_Witness ==
    /\ Succeeded
    /\ FormerChildren \ Kept(update.content) # {}
    /\ FormerChildren \cap Kept(update.content) # {}
    /\ Allocated(before) \ Footprint # {}

\* The error update_child gives for a failing j-th entry: the checks are
\* made in the order not allocated, not owned, already reused.
ExpectedError(j) ==
    LET id == Entries(update.content)[j].idx IN
    IF id \notin AllocatedAt(j) THEN InvalidKeepIndex(id)
    ELSE IF id \notin FormerChildren THEN UnownedKeepIndex(id)
    ELSE DuplicateKeepIndex(id)

\* C25: the entries of an update are resolved left to right and the
\* rewrite stops at the first failing entry: the error returned is the one
\* of the leftmost bad KeepIndex (checked as not allocated, then not
\* owned, then already reused), the target is not replaced, and the only
\* nodes allocated are those of the NewNode entries to its left.
C25_FirstFailureDecides ==
    CalledOnTarget =>
        \A j \in DOMAIN Entries(update.content) :
            FirstFailure(j) =>
                /\ result = ExpectedError(j)
                /\ tree.nodes[update.target] = before.nodes[update.target]
                /\ Allocated(tree) \ Allocated(before)
                       = {FreshKey(before, n) :
                             n \in 1..EntriesNewCount(
                                 SubSeq(Entries(update.content), 1, j - 1))}

\* An update with two bad KeepIndex entries that fail for different
\* reasons.
C25_Witness ==
    /\ CalledOnTarget
    /\ \E j, k \in DOMAIN Entries(update.content) :
           /\ j < k
           /\ FirstFailure(j)
           /\ KeepFails(k)
           /\ ExpectedError(j).tag # ExpectedError(k).tag

\* C22: for all boxes a and b over the coordinates, INVALID included,
\* union(INVALID, a) = a = union(a, INVALID) and union(a, b) = union(b, a).
C22_UnionIdentityCommutes ==
    boxes.tag = "Applied" =>
        /\ boxes.ia = boxes.a
        /\ boxes.ai = boxes.a
        /\ boxes.ab = boxes.ba

\* union applied to two different boxes, neither INVALID, neither inside
\* the other.
C22_Witness ==
    /\ boxes.tag = "Applied"
    /\ boxes.a # INVALID
    /\ boxes.b # INVALID
    /\ boxes.ab # boxes.a
    /\ boxes.ab # boxes.b

\* The box the construction rule gives an Operation over a child whose
\* cached box is c.
RuleOperationAabb(operation, c) ==
    IF operation.o = "Translate"
    THEN Aabb(<<FAdd(c.min[1], operation.offset[1]),
                FAdd(c.min[2], operation.offset[2])>>,
              <<FAdd(c.max[1], operation.offset[1]),
                FAdd(c.max[2], operation.offset[2])>>)
    ELSE IF operation.o = "Scale"
    THEN Aabb(<<FMul(c.min[1], operation.scale),
                FMul(c.min[2], operation.scale)>>,
              <<FMul(c.max[1], operation.scale),
                FMul(c.max[2], operation.scale)>>)
    ELSE IF operation.o = "Blur"
    THEN Aabb(<<FAdd(c.min[1], 0 - operation.radius),
                FAdd(c.min[2], 0 - operation.radius)>>,
              <<FAdd(c.max[1], operation.radius),
                FAdd(c.max[2], operation.radius)>>)
    ELSE c

\* The union of the boxes cached on the first n children of a list,
\* folded from INVALID.
RECURSIVE RuleGroupAabb(_, _)
RuleGroupAabb(children, n) ==
    IF n = 0 THEN INVALID
    ELSE union(RuleGroupAabb(children, n - 1), tree.nodes[children[n]].aabb)

\* The internal nodes the last call constructed.
ConstructedInternal ==
    {n \in ({update.target} \cup Range(result.new_nodes)) \cap Allocated(tree) :
         tree.nodes[n].kind.tag # "Shape"}

\* C30: the box cached on an internal node update_node constructed is
\* computed from the boxes cached on its direct children: shifted by a
\* Translate, multiplied by a Scale, grown by the radius of a Blur, left
\* as it is by Stroke and Opacity, and for a Group the union of the
\* children's boxes folded from INVALID.
C30_InternalAabbFromChildren ==
    Succeeded =>
        \A n \in ConstructedInternal :
            LET kind == tree.nodes[n].kind IN
            tree.nodes[n].aabb =
                IF kind.tag = "Operation"
                THEN RuleOperationAabb(kind.operation,
                                       tree.nodes[kind.child].aabb)
                ELSE RuleGroupAabb(kind.children, Len(kind.children))

\* A successful update that wrote a Scale by 2 over a unit circle: the box
\* of the target is [-2, -2]..[2, 2].
C30_Witness ==
    /\ Succeeded
    /\ update.content.tag = "Operation"
    /\ update.content.operation.o = "Scale"
    /\ tree.nodes[update.target].aabb = Aabb(<<-2, -2>>, <<2, 2>>)
    /\ before # TreeNew

\* C26: on every tree update_node calls produce (failed calls and calls
\* on non-root or unreachable targets included) and for every viewport,
\* walk never looks up an unallocated id and never reads the top of an
\* empty transform stack, and update_node never comes to a missing node in
\* begin_children_update, end_children_update or create_new_node.
C26_NoPanic ==
    /\ result # Panicked
    /\ Walked => ~walked.panicked

\* A walk that reached the end of a tree holding a leaked node, made after
\* a failed update and an update of a target other than the root.
C26_Witness ==
    /\ Walked
    /\ walked.stack = <<>>
    /\ calls = MaxCalls
    /\ Allocated(tree) \ Reachable(tree) # {}
    /\ Len(walked.visits) >= 2

\* The first (ascending) visits the last walk made of node n, and the
\* second (descending) visits, each of which calls pop_operation.
FirstVisits(n) == {k \in DOMAIN walked.visits : walked.visits[k].node = n}
SecondVisits(n) ==
    {k \in DOMAIN walked.events :
         walked.events[k].cb = "pop_operation" /\ walked.events[k].node = n}

\* C27: on every tree update_node calls produce and for every viewport,
\* walk terminates: its work stack becomes empty, every node reachable
\* from id 0 gets at most one first visit and every Operation node at most
\* one second visit.
C27_WalkTerminates ==
    Walked =>
        /\ walked.stack = <<>>
        /\ walked.steps <= 2 * Cardinality(Reachable(tree))
        /\ \A n \in Reachable(tree) :
               /\ Cardinality(FirstVisits(n)) <= 1
               /\ tree.nodes[n].kind.tag = "Operation"
                      => Cardinality(SecondVisits(n)) <= 1
        /\ \A k \in DOMAIN walked.visits :
               walked.visits[k].node \in Reachable(tree)

\* A walk that visited every slot of a full arena, one of them twice.
C27_Witness ==
    /\ Walked
    /\ Cardinality(Reachable(tree)) = MaxSlots
    /\ Len(walked.visits) = MaxSlots
    /\ walked.steps > MaxSlots

\* The parent of a node other than the root that is reachable from it.
Parent(n) ==
    CHOOSE p \in Reachable(tree) : n \in Range(Children(tree, p))

\* The composition, in root-to-n order, of the Translate and Scale
\* operations on the path from the root to n, n excluded: each operation
\* multiplies the transform of the path above it on the right.
RECURSIVE PathTransform(_)
PathTransform(n) ==
    IF n = 0 THEN Mat3Default
    ELSE LET kind == tree.nodes[Parent(n)].kind IN
         IF kind.tag = "Operation" /\ kind.operation.o = "Translate"
         THEN Mat3Mul(PathTransform(Parent(n)),
                      Mat3FromTranslation(kind.operation.offset))
         ELSE IF kind.tag = "Operation" /\ kind.operation.o = "Scale"
         THEN Mat3Mul(PathTransform(Parent(n)),
                      Mat3FromScale(kind.operation.scale))
         ELSE PathTransform(Parent(n))

Deliver(r, e) ==
    IF e.cb = "on_shape" THEN on_shape(r, e.arg)
    ELSE IF e.cb = "push_operation" THEN push_operation(r, e.arg)
    ELSE pop_operation(r, e.arg)

\* The renderer after the first n callbacks of the last walk.
RECURSIVE RendererAfter(_)
RendererAfter(n) ==
    IF n = 0 THEN RaqoteNew
    ELSE Deliver(RendererAfter(n - 1), walked.events[n])

\* What a push_operation adds to and its pop_operation takes from: the
\* stroke stack, the transform stack and the depth of the blur stack.
Frames(r) == <<r.stroke_stack, r.transform_stack, Len(r.blur_stack)>>

\* C29: when walk drives a RaqoteRenderer over a tree update_node calls
\* produced, the stroke stack and the transform stack are non-empty at
\* every on_shape and push_operation, the blur stack is non-empty at every
\* pop_operation of a Blur, every pop_operation leaves the three stacks as
\* they were before its push_operation, and when walk returns they hold
\* one default stroke, one identity transform and no blur target.
C29_RendererStacks ==
    Walked =>
        /\ walked.walker = RendererAfter(Len(walked.events))
        /\ ~walked.walker.panicked
        /\ \A k \in DOMAIN walked.events :
               /\ walked.events[k].cb \in {"on_shape", "push_operation"}
                      => /\ RendererAfter(k - 1).stroke_stack # <<>>
                         /\ RendererAfter(k - 1).transform_stack # <<>>
               /\ (/\ walked.events[k].cb = "pop_operation"
                   /\ walked.events[k].arg.o = "Blur")
                      => RendererAfter(k - 1).blur_stack # <<>>
        /\ \A k, q \in DOMAIN walked.events :
               (/\ k < q
                /\ walked.events[k].cb = "push_operation"
                /\ walked.events[q].cb = "pop_operation"
                /\ walked.events[k].node = walked.events[q].node)
               => Frames(RendererAfter(q)) = Frames(RendererAfter(k - 1))
        /\ Frames(walked.walker) = <<<<DefaultStroke>>, <<Mat3Default>>, 0>>

\* A walk that drew a shape with a pushed stroke on a blur target and
\* blended the target when the Blur was popped.
C29_Witness ==
    /\ Walked
    /\ \E k \in DOMAIN walked.events :
           /\ walked.events[k].cb = "pop_operation"
           /\ walked.events[k].arg.o = "Blur"
    /\ \E d \in DOMAIN walked.walker.drawn :
           walked.walker.drawn[d].source # DefaultStroke

\* The box the construction rule gives a leaf of the shape.
RuleShapeAabb(shape) ==
    IF shape.s = "Empty" THEN Aabb(<<Inf, Inf>>, <<NegInf, NegInf>>)
    ELSE IF shape.s = "Circle"
    THEN Aabb(<<-1 * shape.radius, -1 * shape.radius>>,
              <<shape.radius, shape.radius>>)
    ELSE IF shape.s = "Rectangle" THEN Aabb(shape.min, shape.max)
    ELSE Aabb(<<-5, -10>>, <<10 * Len(shape.content), 5>>)

\* The leaf the last call constructed: the target of a Shape update, the
\* first new node otherwise.
ConstructedLeaf ==
    IF update.content.tag = "Shape" THEN update.target
    ELSE result.new_nodes[1]

\* C31: the box cached on a leaf update_node constructed is INVALID for
\* Empty, [-r, -r]..[r, r] for a Circle of radius r, min..max for a
\* Rectangle and [-5, -10]..[10 * len, 5] for a Text of length len; a root
\* replaced by a Shape update holds that shape and box, and the response
\* has no new_nodes.
C31_LeafAabb ==
    (Called /\ boxes.tag = "Shape") =>
        /\ Succeeded
        /\ tree.nodes[ConstructedLeaf].kind = KindShape(boxes.shape)
        /\ tree.nodes[ConstructedLeaf].aabb = RuleShapeAabb(boxes.shape)
        /\ update.content.tag = "Shape" =>
               /\ result = Ok(<<>>)
               /\ Allocated(tree) = {0}

\* The root of a fresh tree replaced by a Text of two bytes: its box is
\* [-5, -10]..[20, 5].
C31_Witness ==
    /\ Succeeded
    /\ update = NodeUpdate(0, ContentShape(Text(<<"a", "a">>)))
    /\ tree.nodes[0].aabb = Aabb(<<-5, -10>>, <<20, 5>>)

\* The ids the last call issued: those it returned, or after an error
\* those it left allocated.
Issued ==
    IF Succeeded THEN Range(result.new_nodes)
    ELSE Allocated(tree) \ Allocated(before)

\* The removed ids that were free when the last call began.
Free == Range(before.vacant)

\* C32: ids are recycled. An allocation made while a removed id is free
\* gets one of the removed ids, an id greater than every id issued so far
\* is issued only when no removed id is left, and an id the update removes
\* is not reissued by that update.
C32_IdsRecycled ==
    Called =>
        /\ \A i \in Issued : i \in Free \/ i >= SlabLen(before)
        /\ (\E i \in Issued : i >= SlabLen(before)) => Free \subseteq Issued
        /\ Cardinality(Issued \cap Free) =
               IF Cardinality(Issued) <= Cardinality(Free)
               THEN Cardinality(Issued) ELSE Cardinality(Free)
        /\ CalledOnTarget =>
               Issued \cap (FormerChildren \ Kept(update.content)) = {}

\* A successful update that recycled the free id and was issued a new one
\* past the end as well.
C32_Witness ==
    /\ Succeeded
    /\ Free # {}
    /\ \E i \in Issued : i >= SlabLen(before)

\* Box a ends on some axis where box b begins, or the other way round.
Touching(a, b) ==
    \E axis \in 1..2 :
        a.max[axis] = b.min[axis] \/ b.max[axis] = a.min[axis]

\* C33: is_intersecting is strict on both axes: two boxes that only touch
\* along an edge or at a corner do not intersect, INVALID intersects no
\* box, and is_intersecting(a, b) = is_intersecting(b, a).
C33_IsIntersectingStrict ==
    boxes.tag = "Intersected" =>
        /\ boxes.ab = boxes.ba
        /\ ~boxes.ia
        /\ ~boxes.ai
        /\ Touching(boxes.a, boxes.b) => ~boxes.ab

\* Two boxes of positive width and height that share an edge: the first
\* ends at x = 1 where the second begins, and both span the same y.
C33_Witness ==
    /\ boxes.tag = "Intersected"
    /\ boxes.a = Aabb(<<0, 0>>, <<1, 2>>)
    /\ boxes.b = Aabb(<<1, 0>>, <<2, 2>>)
    /\ ~boxes.ab

\* The j-th entry is a KeepIndex of an id that was not allocated when the
\* call began and that a NewNode entry to its left has allocated.
NamesNewNode(j) ==
    LET E == Entries(update.content) IN
    /\ E[j].tag = "KeepIndex"
    /\ E[j].idx \notin Allocated(before)
    /\ E[j].idx \in AllocatedAt(j)
    /\ E[j].idx \in Allocated(tree)

\* C34 as stated: a KeepIndex(k) of an id that was not allocated when the
\* call began and that an earlier NewNode entry of the update allocated
\* makes the update fail with UnownedKeepIndex(k).
C34_NewNodeNotAdopted ==
    CalledOnTarget =>
        \A j \in DOMAIN Entries(update.content) :
            NamesNewNode(j) =>
                result = UnownedKeepIndex(Entries(update.content)[j].idx)

\* C34, amended: such an update never succeeds and never makes the new
\* node a child of the target a second time; it fails with
\* UnownedKeepIndex(k), not InvalidKeepIndex(k), when no entry to the left
\* of KeepIndex(k) has failed; and no successful update leaves a node
\* twice among the children of its target.
C34_NewNodeNotAdoptedFirstFailure ==
    CalledOnTarget =>
        /\ \A j \in DOMAIN Entries(update.content) :
               NamesNewNode(j) =>
                   /\ ~Succeeded
                   /\ tree.nodes[update.target] = before.nodes[update.target]
                   /\ FirstFailure(j) =>
                          result = UnownedKeepIndex(Entries(update.content)[j].idx)
        /\ Succeeded => NoDuplicates(Children(tree, update.target))

\* A KeepIndex of the node the NewNode entry before it has just allocated
\* in a recycled slot, refused on a target that has a child.
C34_Witness ==
    /\ CalledOnTarget
    /\ result.tag = "UnownedKeepIndex"
    /\ result.idx \in Range(before.vacant)
    /\ result.idx \in Allocated(tree)
    /\ FormerChildren # {}
    /\ \E j \in DOMAIN Entries(update.content) : NamesNewNode(j) /\ FirstFailure(j)

\* The box cached on node n under the transforms of its ancestors.
OwnWorldAabb(n) == WorldAabb(PathTransform(n), tree.nodes[n].aabb)

\* The on_shape callbacks the last walk made for node n.
OnShapeCalls(n) ==
    {k \in DOMAIN walked.events :
         walked.events[k].cb = "on_shape" /\ walked.events[k].node = n}

\* C35: after successful update_node calls only and for any viewport, walk
\* calls on_shape exactly once for every shape node reachable from id 0
\* whose own world-space box intersects the viewport.
C35_VisibleShapeDrawn ==
    Walked =>
        \A n \in Reachable(tree) :
            (/\ tree.nodes[n].kind.tag = "Shape"
             /\ is_intersecting(walked.viewport, OwnWorldAabb(n)))
            => Cardinality(OnShapeCalls(n)) = 1

\* C36: on every update_node call that returns an error, every node that
\* was allocated before the call is still allocated under the same id with
\* the same kind and AABB, and the target still has the same kind and the
\* same children list.
C36_ErrorKeepsOldNodes ==
    (Called /\ ~Succeeded) =>
        /\ \A i \in Allocated(before) :
               /\ i \in Allocated(tree)
               /\ tree.nodes[i].kind = before.nodes[i].kind
               /\ tree.nodes[i].aabb = before.nodes[i].aabb
        /\ CalledOnTarget =>
               Children(tree, update.target) = Children(before, update.target)

\* A refused update of a target that has a child, which left a new node
\* behind.
C36_Witness ==
    /\ KeepIndexFailed
    /\ FormerChildren # {}
    /\ Allocated(tree) # Allocated(before)


\* C37: update_node with an allocated target and a content without a
\* KeepIndex entry succeeds on every reachable tree; on a fresh tree an
\* update of the root succeeds exactly when its content has no KeepIndex
\* entry, which is the call new_with_content and set_root make.
C37_NoKeepIndexSucceeds ==
    /\ (CalledOnTarget /\ Kept(update.content) = {}) => Succeeded
    /\ (Called /\ before = TreeNew /\ update.target = 0) =>
           (Succeeded <=> Kept(update.content) = {})

\* A successful update without KeepIndex entries that builds new nodes under
\* a target other than the root, on a tree that is no longer fresh.
C37_Witness ==
    /\ CalledOnTarget
    /\ Succeeded
    /\ before # TreeNew
    /\ update.target # 0
    /\ Kept(update.content) = {}
    /\ EntriesNewCount(Entries(update.content)) > 0

====
